---------------------------- MODULE Spec2Model ----------------------------
(***************************************************************************)
(* Model of samples/shadow.py: the device-shadow sample that keeps one     *)
(* property in sync between the device and its shadow document.            *)
(*                                                                         *)
(* Three threads run the sample's code:                                    *)
(*   "main"  - the __main__ block (connect, subscribe, get, wait)          *)
(*   "cb"    - the single event-loop thread (io.EventLoopGroup(1)) that    *)
(*             delivers every MQTT callback, one at a time                 *)
(*   "input" - user_input_thread_fn                                        *)
(* Every function of the sample is modelled by the steps between its       *)
(* lock acquisitions; a `with shadow_value_lock:` block is an acquire step *)
(* followed by a body step that releases the lock.                         *)
(***************************************************************************)
EXTENDS Naturals, Sequences, FiniteSets

(* ------------------------------ bounds --------------------------------- *)
\* number of external events of a run: delta events the service sends plus
\* lines the user types
MaxEvents == 2

(* ---------------------------- Python values ---------------------------- *)
\* Python's None, kept apart from every string a shadow or a user can hold
None == "<None>"
\* a dict (or the state object) that is None or empty: falsy
NoDict == "<NoDict>"
\* a non-empty dict that lacks shadow_property
Absent == "<Absent>"
\* end of the input stream: input() raises EOFError
EOF == "<EOF>"
\* an object of another type where a dict is expected: using it raises
Malformed == "<Malformed>"

SHADOW_VALUE_DEFAULT == "off"
\* property values a shadow document or a user can supply; "" is falsy
PropValues == {"", "off", "red"}
QuitWords == {"exit", "quit"}
UserLines == PropValues \cup QuitWords \cup {EOF}
ErrorCodes == {404, 500}
ConnectCodes == {0, 5}

\* what a dict of a get response holds for shadow_property
SnapshotEntries == {NoDict, Absent} \cup PropValues
\* what delta.state of a delta event holds for shadow_property
DeltaEntries == {NoDict, Absent, None} \cup PropValues

Threads == {"main", "cb", "input"}
Workers == {"cb", "input"}
Topics == {"delta", "update_accepted", "update_rejected", "get_accepted", "get_rejected"}

NoResponse == [kind |-> "none"]
GetResponses ==
    {[kind |-> "get", state |-> FALSE, delta |-> NoDict, reported |-> NoDict],
     [kind |-> "get", state |-> TRUE, delta |-> Malformed, reported |-> NoDict]}
    \cup {[kind |-> "get", state |-> TRUE, delta |-> d, reported |-> r] :
            d \in SnapshotEntries, r \in SnapshotEntries}
ErrorResponses == {[kind |-> "error", code |-> c] : c \in ErrorCodes}
DeltaEvents == {[kind |-> "delta", entry |-> e] : e \in DeltaEntries \cup {Malformed}}
\* an update response: state.reported of the device's own requests carries
\* the property, that of another client's desired-only update is None
UpdateResponses == {[kind |-> "update", reported |-> e] : e \in {NoDict} \cup PropValues}

\* Python truthiness of a property value (`if value:`)
Truthy(v) == v \notin {None, "", NoDict, Absent}
\* dict.get(shadow_property): None when the key is missing
DictGet(entry) == IF entry \in {NoDict, Absent} THEN None ELSE entry
\* `shadow_property in delta.state`, after `delta.state and`
HasProperty(entry) == entry \notin {NoDict, Absent}

UpdateShadowRequest(value) == [reported |-> value, desired |-> value]

(* ------------------------------- state --------------------------------- *)
VARIABLES
    disconnect_called,   \* the module-level flag
    disconnectCalls,     \* number of mqtt_connection.disconnect() calls made
    is_sample_done,      \* threading.Event
    connected_future,    \* "pending", "ok" or "failed"
    connection,          \* state of the MQTT connection
    shadow_value,        \* None or a property value
    shadow_value_lock,   \* "free" or the thread holding it
    pc,                  \* where each thread is
    value,               \* each worker's `value` argument / local
    handler,             \* the callback the event-loop thread is running
    response,            \* that callback's argument, until its last use
    out,                 \* the last status line each worker printed in this call
    updateRequests,      \* requests handed to shadow_client.publish_update, in order
    pendingFutures,      \* update publishes whose future is not done yet
    pendingResponses,    \* update publishes the service has not answered yet
    subFuture,           \* per topic: "none", "pending", "ok", "failed"
    publish_get_future,  \* "none", "pending", "ok", "failed"
    getAnswer,           \* how the service answered the get request, "none" before
    events               \* delta events delivered plus input lines read so far

vars == <<disconnect_called, disconnectCalls, is_sample_done, connected_future,
          connection, shadow_value, shadow_value_lock, pc, value, handler,
          response, out, updateRequests, pendingFutures, pendingResponses,
          subFuture, publish_get_future, getAnswer, events>>

shutdownVars == <<disconnect_called, disconnectCalls, connection>>
storeVars == <<shadow_value, shadow_value_lock>>
publishVars == <<updateRequests, pendingFutures>>
startupVars == <<connected_future, subFuture, publish_get_future>>
envVars == <<getAnswer, events, pendingResponses>>

Init ==
    /\ disconnect_called = FALSE
    /\ disconnectCalls = 0
    /\ is_sample_done = FALSE
    /\ connected_future = "pending"
    /\ connection = "idle"
    /\ shadow_value = None
    /\ shadow_value_lock = "free"
    /\ pc = [t \in Threads |-> IF t = "main" THEN "connect"
                               ELSE IF t = "cb" THEN "idle" ELSE "notStarted"]
    /\ value = [t \in Workers |-> None]
    /\ handler = "none"
    /\ response = NoResponse
    /\ out = [t \in Workers |-> "none"]
    /\ updateRequests = <<>>
    /\ pendingFutures = 0
    /\ pendingResponses = 0
    /\ subFuture = [tp \in Topics |-> "none"]
    /\ publish_get_future = "none"
    /\ getAnswer = "none"
    /\ events = 0

\* the process is alive until the main thread returns or dies
Running == pc["main"] \notin {"finished", "crashed"}

Goto(t, label) == pc' = [pc EXCEPT ![t] = label]

(* ------------------------------ exit() --------------------------------- *)
\* exit(msg), lines 69-74: set the flag and request the disconnect
exit ==
    /\ disconnect_called' = TRUE
    /\ disconnectCalls' = disconnectCalls + 1
    /\ connection' = IF connection = "connected" THEN "disconnecting" ELSE connection


shutdownUnchanged == UNCHANGED shutdownVars

(* ------------------------- returning from a call ----------------------- *)
\* the worker's function returns: the event-loop thread waits for the next
\* callback, the input thread loops back to read the next line (line 206)
Return(t) ==
    /\ Running
    /\ pc[t] = "return"
    /\ Goto(t, IF t = "cb" THEN "idle" ELSE "read")
    /\ value' = [value EXCEPT ![t] = None]
    /\ out' = [out EXCEPT ![t] = "none"]
    /\ handler' = IF t = "cb" THEN "none" ELSE handler
    /\ response' = IF t = "cb" THEN NoResponse ELSE response
    /\ UNCHANGED <<shutdownVars, is_sample_done, storeVars, publishVars,
                   startupVars, envVars>>

(* ----------------------- change_shadow_value() ------------------------- *)
\* a change path that never takes the `already` branch
ValueUnchanged_never(current, v) == FALSE

\* line 183: `if shadow_value == value`
ValueUnchanged(current, v) == current = v

\* line 182: `with shadow_value_lock:` entered
change_shadow_value_lock(t) ==
    /\ Running
    /\ pc[t] = "csvLock"
    /\ shadow_value_lock = "free"
    /\ shadow_value_lock' = t
    /\ Goto(t, "csvCas")
    /\ UNCHANGED <<shutdownVars, is_sample_done, shadow_value, value, handler,
                   response, out, publishVars, startupVars, envVars>>

\* a change path that publishes inside the `with shadow_value_lock:` block
change_shadow_value_compare_publishes(t) ==
    /\ Running
    /\ pc[t] = "csvCas"
    /\ shadow_value_lock = t
    /\ shadow_value_lock' = "free"
    /\ IF shadow_value = value[t]
       THEN /\ shadow_value' = shadow_value
            /\ out' = [out EXCEPT ![t] = "Local value is already"]
            /\ UNCHANGED publishVars
       ELSE /\ shadow_value' = value[t]
            /\ out' = [out EXCEPT ![t] = "Updating reported shadow value"]
            /\ updateRequests' = Append(updateRequests, UpdateShadowRequest(value[t]))
            /\ pendingFutures' = pendingFutures + 1
    /\ Goto(t, "return")
    /\ UNCHANGED <<shutdownVars, is_sample_done, value, handler, response,
                   startupVars, envVars>>

\* lines 183-189: compare, and either return or store; the lock is released
change_shadow_value_compare(t) ==
    /\ Running
    /\ pc[t] = "csvCas"
    /\ shadow_value_lock = t
    /\ shadow_value_lock' = "free"
    /\ IF ValueUnchanged(shadow_value, value[t])
       THEN /\ shadow_value' = shadow_value
            /\ out' = [out EXCEPT ![t] = "Local value is already"]
            /\ Goto(t, "return")
       ELSE /\ shadow_value' = value[t]
            /\ out' = [out EXCEPT ![t] = "Changed local shadow value"]
            /\ Goto(t, "csvPublish")
    /\ UNCHANGED <<shutdownVars, is_sample_done, value, handler, response,
                   publishVars, startupVars, envVars>>

\* lines 191-203: build the request and hand it to publish_update; the call
\* returns a future (on_publish_update is attached) or raises, and then
\* exit() is called (line 203)
change_shadow_value_publish(t) ==
    /\ Running
    /\ pc[t] = "csvPublish"
    /\ updateRequests' = Append(updateRequests, UpdateShadowRequest(value[t]))
    /\ \/ /\ pendingFutures' = pendingFutures + 1
          /\ out' = [out EXCEPT ![t] = "Updating reported shadow value"]
          /\ shutdownUnchanged
       \/ /\ pendingFutures' = pendingFutures
          /\ out' = [out EXCEPT ![t] = "Error issuing shadow update"]
          /\ exit
    /\ Goto(t, "return")
    /\ UNCHANGED <<is_sample_done, storeVars, value, handler, response,
                   startupVars, envVars>>

(* ---------------- set_local_value_due_to_initial_query() --------------- *)
\* line 175: `with shadow_value_lock:` entered
set_local_value_lock ==
    /\ Running
    /\ pc["cb"] = "slqLock"
    /\ shadow_value_lock = "free"
    /\ shadow_value_lock' = "cb"
    /\ Goto("cb", "slqSet")
    /\ UNCHANGED <<shutdownVars, is_sample_done, shadow_value, value, handler,
                   response, out, publishVars, startupVars, envVars>>

\* an initial-query adoption that also reports the value to the service
set_local_value_publishes ==
    /\ Running
    /\ pc["cb"] = "slqSet"
    /\ shadow_value_lock = "cb"
    /\ shadow_value' = value["cb"]
    /\ shadow_value_lock' = "free"
    /\ updateRequests' = Append(updateRequests, UpdateShadowRequest(value["cb"]))
    /\ pendingFutures' = pendingFutures + 1
    /\ Goto("cb", "return")
    /\ UNCHANGED <<shutdownVars, is_sample_done, value, handler, response, out,
                   startupVars, envVars>>

\* lines 176-178: store the reported value, release the lock
set_local_value_due_to_initial_query ==
    /\ Running
    /\ pc["cb"] = "slqSet"
    /\ shadow_value_lock = "cb"
    /\ shadow_value' = value["cb"]
    /\ shadow_value_lock' = "free"
    /\ Goto("cb", "return")
    /\ UNCHANGED <<shutdownVars, is_sample_done, value, handler, response, out,
                   publishVars, startupVars, envVars>>

(* --------------------------- on_get_accepted() ------------------------- *)
\* a handler that skips the `already received` check
AlreadySet_never(current) == FALSE

\* line 102: `if shadow_value is not None`
AlreadySet(current) == current # None

\* lines 106-123: which branch a snapshot takes once the value is unset;
\* `.get` on a delta that is no dict raises (line 108)
InitialQueryBranch(r) ==
    IF r.state /\ r.delta = Malformed THEN "raises"
    ELSE IF r.state /\ r.delta # NoDict /\ Truthy(DictGet(r.delta)) THEN "delta"
    ELSE IF r.state /\ r.reported # NoDict /\ Truthy(DictGet(r.reported)) THEN "reported"
    ELSE "default"

\* messages the event-loop thread hands to a callback arrive while the
\* connection is up, or still draining after disconnect() was requested
Receiving == Running /\ pc["cb"] = "idle" /\ connection \in {"connected", "disconnecting"}

\* the service answers the get request on get/accepted: on_get_accepted is
\* called and enters `with shadow_value_lock:` (line 101)
on_get_accepted(r) ==
    /\ Receiving
    /\ publish_get_future = "ok"
    /\ subFuture["get_accepted"] = "ok"
    /\ getAnswer = "none"
    /\ getAnswer' = "accepted"
    /\ handler' = "on_get_accepted"
    /\ response' = r
    /\ shadow_value_lock = "free"
    /\ shadow_value_lock' = "cb"
    /\ Goto("cb", "gaCheck")
    /\ UNCHANGED <<shutdownVars, is_sample_done, shadow_value, value, out, publishVars,
                   startupVars, events, pendingResponses>>

\* lines 102-126: the check under the lock, then (lock released) the branch;
\* the branch ends in a call that takes the lock again, or raises into
\* `except Exception` (line 125), which calls exit()
on_get_accepted_check ==
    /\ Running
    /\ pc["cb"] = "gaCheck"
    /\ shadow_value_lock = "cb"
    /\ shadow_value_lock' = "free"
    /\ IF AlreadySet(shadow_value)
       THEN /\ out' = [out EXCEPT !["cb"] = "Ignoring initial query"]
            /\ value' = value
            /\ Goto("cb", "return")
            /\ shutdownUnchanged
       ELSE CASE InitialQueryBranch(response) = "raises" ->
                   /\ out' = [out EXCEPT !["cb"] = "Error getting shadow"]
                   /\ value' = value
                   /\ Goto("cb", "return")
                   /\ exit
              [] InitialQueryBranch(response) = "delta" ->
                   /\ out' = [out EXCEPT !["cb"] = "Shadow contains delta value"]
                   /\ value' = [value EXCEPT !["cb"] = DictGet(response.delta)]
                   /\ Goto("cb", "csvLock")
                   /\ shutdownUnchanged
              [] InitialQueryBranch(response) = "reported" ->
                   /\ out' = [out EXCEPT !["cb"] = "Shadow contains reported value"]
                   /\ value' = [value EXCEPT !["cb"] = response.reported]
                   /\ Goto("cb", "slqLock")
                   /\ shutdownUnchanged
              [] OTHER ->
                   /\ out' = [out EXCEPT !["cb"] = "Shadow document lacks property"]
                   /\ value' = [value EXCEPT !["cb"] = SHADOW_VALUE_DEFAULT]
                   /\ Goto("cb", "csvLock")
                   /\ shutdownUnchanged
    /\ response' = NoResponse
    /\ UNCHANGED <<is_sample_done, shadow_value, handler,
                   publishVars, startupVars, envVars>>

(* --------------------------- on_get_rejected() ------------------------- *)
\* a handler for which every rejection is fatal
NotFound_never(code) == FALSE

\* line 130: `if error.code == 404`
NotFound(code) == code = 404

\* lines 128-135
on_get_rejected(e) ==
    /\ Receiving
    /\ publish_get_future = "ok"
    /\ subFuture["get_rejected"] = "ok"
    /\ getAnswer = "none"
    /\ getAnswer' = IF e.code = 404 THEN "not_found" ELSE "error"
    /\ handler' = "on_get_rejected"
    /\ response' = e
    /\ IF NotFound(e.code)
       THEN /\ out' = [out EXCEPT !["cb"] = "Thing has no shadow document"]
            /\ value' = [value EXCEPT !["cb"] = SHADOW_VALUE_DEFAULT]
            /\ Goto("cb", "csvLock")
            /\ shutdownUnchanged
       ELSE /\ out' = [out EXCEPT !["cb"] = "Get request was rejected"]
            /\ value' = value
            /\ Goto("cb", "return")
            /\ exit
    /\ UNCHANGED <<is_sample_done, storeVars, publishVars, startupVars,
                   events, pendingResponses>>

(* --------------------------- on_delta_event() -------------------------- *)
\* a delta handler that resets to the default whatever the delta says
DeltaTarget_default(entry) == SHADOW_VALUE_DEFAULT
\* a delta handler that clears the local value on every delta
DeltaTarget_unset(entry) == None
\* a delta handler that passes a deletion marker on as the new value
DeltaTarget_raw(entry) == entry

\* lines 142-149: the value handed to change_shadow_value
DeltaTarget(entry) == IF entry = None THEN SHADOW_VALUE_DEFAULT ELSE entry

\* lines 137-154; `in` on a delta.state that is no dict raises (line 142)
\* into `except Exception` (line 153), which calls exit()
on_delta_event(d) ==
    /\ Receiving
    /\ subFuture["delta"] = "ok"
    /\ events < MaxEvents
    /\ events' = events + 1
    /\ handler' = "on_delta_event"
    /\ response' = d
    /\ IF d.entry = Malformed
       THEN /\ out' = [out EXCEPT !["cb"] = "Error processing shadow delta"]
            /\ value' = value
            /\ Goto("cb", "return")
            /\ exit
       ELSE IF HasProperty(d.entry)
       THEN /\ out' = [out EXCEPT !["cb"] =
                        IF d.entry = None THEN "Delta reports deleted"
                        ELSE "Delta reports desired value"]
            /\ value' = [value EXCEPT !["cb"] = DeltaTarget(d.entry)]
            /\ Goto("cb", "csvLock")
            /\ shutdownUnchanged
       ELSE /\ out' = [out EXCEPT !["cb"] = "Delta did not report a change"]
            /\ value' = value
            /\ Goto("cb", "return")
            /\ shutdownUnchanged
    /\ UNCHANGED <<is_sample_done, storeVars, publishVars,
                   startupVars, getAnswer, pendingResponses>>

(* ------------- on_publish_update / on_update_accepted|rejected --------- *)
\* Each of these callbacks prints one line or calls exit(), and returns.

\* lines 156-162: the future of an update publish is done; a publish that
\* reached the service is answered on update/accepted or update/rejected
\* when both subscriptions are in place
on_publish_update(ok) ==
    /\ Receiving
    /\ pendingFutures > 0
    /\ pendingFutures' = pendingFutures - 1
    /\ handler' = "on_publish_update"
    /\ Goto("cb", "return")
    /\ IF ok
       THEN /\ pendingResponses' =
                 IF subFuture["update_accepted"] = "ok" /\ subFuture["update_rejected"] = "ok"
                 THEN pendingResponses + 1 ELSE pendingResponses
            /\ out' = [out EXCEPT !["cb"] = "Update request published"]
            /\ shutdownUnchanged
       ELSE /\ pendingResponses' = pendingResponses
            /\ out' = [out EXCEPT !["cb"] = "Failed to publish update request"]
            /\ exit
    /\ UNCHANGED <<is_sample_done, storeVars, value, response,
                   updateRequests, startupVars, getAnswer, events>>

\* line 166: `response.state.reported[shadow_property]`
ReportedProperty(r) == IF r.reported = NoDict THEN "raises" ELSE r.reported

\* lines 164-167: the answer to one of the device's own requests, or the
\* answer to another client's update of the desired state, which reaches
\* every subscriber of update/accepted; with no try block in the handler an
\* exception leaves it without exit() being called
on_update_accepted(r) ==
    /\ Receiving
    /\ subFuture["update_accepted"] = "ok"
    /\ handler' = "on_update_accepted"
    /\ Goto("cb", "return")
    /\ IF ReportedProperty(r) = "raises"
       THEN /\ events < MaxEvents
            /\ events' = events + 1
            /\ pendingResponses' = pendingResponses
            /\ out' = [out EXCEPT !["cb"] = "Unhandled exception"]
       ELSE /\ pendingResponses > 0
            /\ pendingResponses' = pendingResponses - 1
            /\ events' = events
            /\ out' = [out EXCEPT !["cb"] = "Finished updating reported shadow value"]
    /\ UNCHANGED <<shutdownVars, is_sample_done, storeVars, value, response,
                   publishVars, startupVars, getAnswer>>

\* lines 169-172
on_update_rejected ==
    /\ Receiving
    /\ pendingResponses > 0
    /\ pendingResponses' = pendingResponses - 1
    /\ handler' = "on_update_rejected"
    /\ out' = [out EXCEPT !["cb"] = "Update request was rejected"]
    /\ Goto("cb", "return")
    /\ exit
    /\ UNCHANGED <<is_sample_done, storeVars, value, response,
                   publishVars, startupVars, getAnswer, events>>

(* --------------------- on_connected / on_disconnected ------------------ *)
\* lines 76-82
on_connected(return_code) ==
    /\ Running
    /\ pc["cb"] = "idle"
    /\ connection = "connecting"
    /\ connected_future = "pending"
    /\ connected_future' = IF return_code = 0 THEN "ok" ELSE "failed"
    /\ connection' = IF return_code = 0 THEN "connected" ELSE "refused"
    /\ UNCHANGED <<disconnect_called, disconnectCalls, is_sample_done, storeVars, pc,
                   value, handler, response, out, publishVars, subFuture,
                   publish_get_future, envVars>>

\* the transport loses the connection without disconnect() having completed
ConnectionLost ==
    /\ Running
    /\ connection = "connected"
    /\ connection' = "interrupted"
    /\ UNCHANGED <<disconnect_called, disconnectCalls, is_sample_done, storeVars, pc,
                   value, handler, response, out, publishVars, startupVars, envVars>>

\* a disconnect handler that reports completion on every notification
on_disconnected_always_done ==
    /\ Running
    /\ pc["cb"] = "idle"
    /\ connection \in {"disconnecting", "interrupted"}
    /\ is_sample_done' = TRUE
    /\ connection' = IF disconnect_called THEN "disconnected" ELSE "connected"
    /\ UNCHANGED <<disconnect_called, disconnectCalls, storeVars, pc, value, handler,
                   response, out, publishVars, startupVars, envVars>>

\* a disconnect handler that declines to reconnect but never signals
on_disconnected_forgets ==
    /\ Running
    /\ pc["cb"] = "idle"
    /\ connection \in {"disconnecting", "interrupted"}
    /\ is_sample_done' = is_sample_done
    /\ connection' = IF disconnect_called THEN "disconnected" ELSE "connected"
    /\ UNCHANGED <<disconnect_called, disconnectCalls, storeVars, pc, value, handler,
                   response, out, publishVars, startupVars, envVars>>

\* lines 84-94: the handler's return value tells the transport to reconnect
on_disconnected ==
    /\ Running
    /\ pc["cb"] = "idle"
    /\ connection \in {"disconnecting", "interrupted"}
    /\ IF disconnect_called
       THEN /\ is_sample_done' = TRUE
            /\ connection' = "disconnected"
       ELSE /\ is_sample_done' = is_sample_done
            /\ connection' = "connected"
    /\ UNCHANGED <<disconnect_called, disconnectCalls, storeVars, pc, value, handler,
                   response, out, publishVars, startupVars, envVars>>

(* ------------------------ user_input_thread_fn() ----------------------- *)
\* lines 206-224: one line is read; 'exit'/'quit' and a failing read end the
\* thread after exit(), any other line goes to change_shadow_value
user_input_thread_fn(line) ==
    /\ Running
    /\ pc["input"] = "read"
    /\ events < MaxEvents
    /\ events' = events + 1
    /\ IF line \in QuitWords \/ line = EOF
       THEN /\ exit
            /\ out' = [out EXCEPT !["input"] =
                         IF line = EOF THEN "Exception on input thread" ELSE "User has quit"]
            /\ value' = value
            /\ Goto("input", "stopped")
       ELSE /\ shutdownUnchanged
            /\ out' = out
            /\ value' = [value EXCEPT !["input"] = line]
            /\ Goto("input", "csvLock")
    /\ UNCHANGED <<is_sample_done, storeVars, handler, response, publishVars,
                   startupVars, getAnswer, pendingResponses>>

(* ------------------------------ __main__ ------------------------------- *)
\* lines 245-258: the connection is created and connect() is issued
Connect ==
    /\ pc["main"] = "connect"
    /\ connection' = "connecting"
    /\ Goto("main", "waitConnected")
    /\ UNCHANGED <<disconnect_called, disconnectCalls, is_sample_done, storeVars, value,
                   handler, response, out, publishVars, startupVars, envVars>>

\* line 265: connected_future.result(), outside the try block: a failed
\* connect raises out of the main thread
WaitConnected ==
    /\ pc["main"] = "waitConnected"
    /\ connected_future # "pending"
    /\ Goto("main", IF connected_future = "ok" THEN "subDelta" ELSE "crashed")
    /\ UNCHANGED <<shutdownVars, is_sample_done, storeVars, value, handler, response,
                   out, publishVars, startupVars, envVars>>

\* the subscribe calls of one startup phase, and the step after each
PhaseTopics(label) ==
    CASE label = "subDelta" -> {"delta"}
      [] label = "subUpdate" -> {"update_accepted", "update_rejected"}
      [] label = "subGet" -> {"get_accepted", "get_rejected"}
      [] OTHER -> {}

AfterSubscribe(label) ==
    CASE label = "subDelta" -> "waitDelta"
      [] label = "subUpdate" -> "waitUpdateAccepted"
      [] OTHER -> "waitGetAccepted"

\* the future each wait step blocks on, and the step after it
WaitTopic(label) ==
    CASE label = "waitDelta" -> "delta"
      [] label = "waitUpdateAccepted" -> "update_accepted"
      [] label = "waitUpdateRejected" -> "update_rejected"
      [] label = "waitGetAccepted" -> "get_accepted"
      [] OTHER -> "get_rejected"

\* a startup that does not wait for the update/rejected subscription
AfterWait_skips(label) ==
    CASE label = "waitDelta" -> "subUpdate"
      [] label = "waitUpdateAccepted" -> "subGet"
      [] label = "waitUpdateRejected" -> "subGet"
      [] label = "waitGetAccepted" -> "waitGetRejected"
      [] OTHER -> "pubGet"

\* lines 277-280, 289-293, 302-310: the statement after each wait
AfterWait(label) ==
    CASE label = "waitDelta" -> "subUpdate"
      [] label = "waitUpdateAccepted" -> "waitUpdateRejected"
      [] label = "waitUpdateRejected" -> "subGet"
      [] label = "waitGetAccepted" -> "waitGetRejected"
      [] OTHER -> "pubGet"

SubscribeLabels == {"subDelta", "subUpdate", "subGet"}
WaitLabels == {"waitDelta", "waitUpdateAccepted", "waitUpdateRejected",
               "waitGetAccepted", "waitGetRejected"}

\* lines 272-274, 280-286, 293-299: the subscribe calls of one phase
Subscribe ==
    /\ pc["main"] \in SubscribeLabels
    /\ subFuture' = [tp \in Topics |->
                        IF tp \in PhaseTopics(pc["main"]) THEN "pending" ELSE subFuture[tp]]
    /\ Goto("main", AfterSubscribe(pc["main"]))
    /\ UNCHANGED <<shutdownVars, is_sample_done, storeVars, value, handler, response,
                   out, publishVars, connected_future, publish_get_future, envVars>>

\* the event-loop thread completes a subscribe future with the SUBACK
SubAck(tp, ok) ==
    /\ Running
    /\ pc["cb"] = "idle"
    /\ connection \in {"connected", "disconnecting"}
    /\ subFuture[tp] = "pending"
    /\ subFuture' = [subFuture EXCEPT ![tp] = IF ok THEN "ok" ELSE "failed"]
    /\ UNCHANGED <<shutdownVars, is_sample_done, storeVars, pc, value, handler,
                   response, out, publishVars, connected_future, publish_get_future,
                   envVars>>

\* lines 277, 289, 290, 302, 303: future.result(); a failed future raises
\* into `except Exception` (line 323), which calls exit()
WaitSubscribed ==
    /\ pc["main"] \in WaitLabels
    /\ subFuture[WaitTopic(pc["main"])] \in {"ok", "failed"}
    /\ IF subFuture[WaitTopic(pc["main"])] = "ok"
       THEN /\ Goto("main", AfterWait(pc["main"]))
            /\ shutdownUnchanged
       ELSE /\ Goto("main", "wait")
            /\ exit
    /\ UNCHANGED <<is_sample_done, storeVars, value, handler, response, out,
                   publishVars, startupVars, envVars>>

\* lines 310-311: the get request is published
PublishGet ==
    /\ pc["main"] = "pubGet"
    /\ publish_get_future' = "pending"
    /\ Goto("main", "waitPublishGet")
    /\ UNCHANGED <<shutdownVars, is_sample_done, storeVars, value, handler, response,
                   out, publishVars, connected_future, subFuture, envVars>>

\* the event-loop thread completes the get publish future
PubAckGet(ok) ==
    /\ Running
    /\ pc["cb"] = "idle"
    /\ connection \in {"connected", "disconnecting"}
    /\ publish_get_future = "pending"
    /\ publish_get_future' = IF ok THEN "ok" ELSE "failed"
    /\ UNCHANGED <<shutdownVars, is_sample_done, storeVars, pc, value, handler,
                   response, out, publishVars, connected_future, subFuture, envVars>>

\* lines 314-324: publish_get_future.result(), then the input thread is
\* started; a failed publish raises into `except Exception`
WaitPublishGet ==
    /\ pc["main"] = "waitPublishGet"
    /\ publish_get_future \in {"ok", "failed"}
    /\ IF publish_get_future = "ok"
       THEN /\ pc' = [pc EXCEPT !["main"] = "wait", !["input"] = "read"]
            /\ shutdownUnchanged
       ELSE /\ Goto("main", "wait")
            /\ exit
    /\ UNCHANGED <<is_sample_done, storeVars, value, handler, response, out,
                   publishVars, startupVars, envVars>>

\* line 327: is_sample_done.wait() returns and the process ends
WaitDone ==
    /\ pc["main"] = "wait"
    /\ is_sample_done
    /\ Goto("main", "finished")
    /\ UNCHANGED <<shutdownVars, is_sample_done, storeVars, value, handler, response,
                   out, publishVars, startupVars, envVars>>

(* --------------------------- the whole sample -------------------------- *)
Next ==
    \/ Connect
    \/ WaitConnected
    \/ Subscribe
    \/ WaitSubscribed
    \/ PublishGet
    \/ WaitPublishGet
    \/ WaitDone
    \/ \E rc \in ConnectCodes : on_connected(rc)
    \/ ConnectionLost
    \/ on_disconnected
    \/ \E tp \in Topics, ok \in BOOLEAN : SubAck(tp, ok)
    \/ \E ok \in BOOLEAN : PubAckGet(ok)
    \/ \E r \in GetResponses : on_get_accepted(r)
    \/ on_get_accepted_check
    \/ set_local_value_lock
    \/ set_local_value_due_to_initial_query
    \/ \E e \in ErrorResponses : on_get_rejected(e)
    \/ \E d \in DeltaEvents : on_delta_event(d)
    \/ \E ok \in BOOLEAN : on_publish_update(ok)
    \/ \E r \in UpdateResponses : on_update_accepted(r)
    \/ on_update_rejected
    \/ \E line \in UserLines : user_input_thread_fn(line)
    \/ \E t \in Workers : change_shadow_value_lock(t)
    \/ \E t \in Workers : change_shadow_value_compare(t)
    \/ \E t \in Workers : change_shadow_value_publish(t)
    \/ \E t \in Workers : Return(t)

Spec == Init /\ [][Next]_vars

(* ------------------------------ scheduling ----------------------------- *)
\* the steps a thread takes by itself once it was given something to do
CallbackSteps ==
    \/ on_get_accepted_check
    \/ set_local_value_lock
    \/ set_local_value_due_to_initial_query
    \/ change_shadow_value_lock("cb")
    \/ change_shadow_value_compare("cb")
    \/ change_shadow_value_publish("cb")
    \/ Return("cb")

InputSteps ==
    \/ change_shadow_value_lock("input")
    \/ change_shadow_value_compare("input")
    \/ change_shadow_value_publish("input")
    \/ Return("input")

\* Threads that can run are scheduled: a callback or a call of the input
\* thread runs to its end, the transport delivers the disconnect
\* notification, and the main thread wakes up from is_sample_done.wait().
LiveSpec ==
    /\ Spec
    /\ WF_vars(CallbackSteps)
    /\ WF_vars(InputSteps)
    /\ WF_vars(on_disconnected)
    /\ WF_vars(WaitDone)

(* ------------------------------- claims -------------------------------- *)
\* thread t leaves the step `label` in this transition
Step(t, label) == pc[t] = label /\ pc'[t] # label
\* the compare-and-set of change_shadow_value runs in this transition
CasStep(t) == Step(t, "csvCas")
\* the publish of change_shadow_value runs in this transition
PublishStep(t) == Step(t, "csvPublish")
\* the event-loop thread is inside the named callback
InHandler(name) == handler = name /\ pc["cb"] # "idle"

(* C1: exit() is idempotent: however often it is called, the disconnect
   request mqtt_connection.disconnect() is issued exactly once, by the first
   call. *)
C1_DisconnectIssuedOnce == disconnectCalls = IF disconnect_called THEN 1 ELSE 0

(* C2: once shadow_value is set, every later change to it is made by
   change_shadow_value; set_local_value_due_to_initial_query never
   overwrites a value already stored. *)
C2_SetValueChangesOnlyByChangePath ==
    [][(shadow_value # None /\ shadow_value' # shadow_value)
         => \E t \in Workers : CasStep(t)]_vars

(* C3: when shadow_value is already set as on_get_accepted checks it, the
   handler is a no-op whatever the snapshot holds: the value stays, nothing
   is published, exit() is not called, and the handler returns. *)
C3_GetAcceptedNoOpWhenSet ==
    [][(Step("cb", "gaCheck") /\ shadow_value # None)
         => /\ shadow_value' = shadow_value
            /\ UNCHANGED publishVars
            /\ UNCHANGED shutdownVars
            /\ pc'["cb"] = "return"]_vars

C3_Witness ==
    /\ pc["cb"] = "return"
    /\ handler = "on_get_accepted"
    /\ out["cb"] = "Ignoring initial query"
    /\ shadow_value # None
    /\ ~disconnect_called

\* the snapshot's dict carries the tracked property
Carries(r, entry) == r.state /\ HasProperty(entry)

(* C4: with shadow_value unset, on_get_accepted takes exactly one of three
   branches, in this priority, for every snapshot (falsy property values
   included): delta carries the property -> change path with that value;
   else reported carries it -> adopt it; else change path with the default. *)
C4_BranchPriority ==
    [][(Step("cb", "gaCheck") /\ shadow_value = None /\ response.delta # Malformed)
         => IF Carries(response, response.delta)
            THEN pc'["cb"] = "csvLock" /\ value'["cb"] = response.delta
            ELSE IF Carries(response, response.reported)
            THEN pc'["cb"] = "slqLock" /\ value'["cb"] = response.reported
            ELSE pc'["cb"] = "csvLock" /\ value'["cb"] = SHADOW_VALUE_DEFAULT]_vars

(* C5: when on_get_accepted adopts the snapshot's reported value (value
   unset, no delta for the property, reported carries it), shadow_value
   becomes that reported value and the handler publishes nothing. *)
C5_ReportedAdoptedSilently ==
    [][/\ (Step("cb", "gaCheck") /\ shadow_value = None
             /\ ~Carries(response, response.delta)
             /\ Carries(response, response.reported) /\ Truthy(response.reported))
          => pc'["cb"] = "slqLock"
       /\ (Step("cb", "gaCheck") /\ pc'["cb"] = "slqLock")
          => /\ value'["cb"] = response.reported
             /\ UNCHANGED publishVars
       /\ Step("cb", "slqLock")
          => /\ value'["cb"] = value["cb"]
             /\ UNCHANGED publishVars
       /\ Step("cb", "slqSet")
          => /\ shadow_value' = value["cb"]
             /\ UNCHANGED publishVars
             /\ UNCHANGED shutdownVars
             /\ pc'["cb"] = "return"]_vars

C5_Witness ==
    /\ pc["cb"] = "return"
    /\ handler = "on_get_accepted"
    /\ out["cb"] = "Shadow contains reported value"
    /\ shadow_value = value["cb"]
    /\ shadow_value \in PropValues
    /\ updateRequests = <<>>

(* C6: change_shadow_value(v) is a compare-and-set followed by a conditional
   publish: v equal to the stored value leaves the store alone and publishes
   nothing; otherwise the store becomes v and exactly one update request is
   published, with reported = desired = v.  The store changes only that way
   (or by the initial-query adoption), so it holds the last v that changed. *)
C6_CompareAndSetThenPublish ==
    [][/\ \A t \in Workers :
            /\ CasStep(t) =>
                 IF shadow_value = value[t]
                 THEN /\ shadow_value' = shadow_value
                      /\ UNCHANGED publishVars
                      /\ pc'[t] = "return"
                 ELSE /\ shadow_value' = value[t]
                      /\ UNCHANGED publishVars
                      /\ value'[t] = value[t]
                      /\ pc'[t] = "csvPublish"
            /\ PublishStep(t) =>
                 /\ updateRequests' = Append(updateRequests,
                                             [reported |-> value[t], desired |-> value[t]])
                 /\ shadow_value' = shadow_value
                 /\ pc'[t] = "return"
       /\ updateRequests' # updateRequests => \E t \in Workers : PublishStep(t)
       /\ shadow_value' # shadow_value =>
            \/ \E t \in Workers : CasStep(t) /\ shadow_value' = value[t]
            \/ Step("cb", "slqSet")]_vars

C6_Witness ==
    \E t \in Workers :
        /\ pc[t] = "return"
        /\ out[t] = "Local value is already"
        /\ Len(updateRequests) = 1
        /\ updateRequests[1] = [reported |-> shadow_value, desired |-> shadow_value]
        /\ value[t] = shadow_value

\* the event-loop thread runs on_delta_event for a delta that carries a value
DeltaWithValue == InHandler("on_delta_event") /\ response.entry \in PropValues
\* the event-loop thread runs on_delta_event for a deletion marker
DeltaWithDeletion == InHandler("on_delta_event") /\ response.entry = None

(* C7: on_delta_event with a (non-deletion) value for the property always
   adopts that value and publishes an update request for it, whether or not
   it differs from the stored value. *)
C7_DeltaAlwaysPublishes ==
    [][(DeltaWithValue /\ CasStep("cb"))
         => shadow_value' = response.entry /\ pc'["cb"] = "csvPublish"]_vars

(* C7 as amended: on_delta_event with a (non-deletion) value hands that
   value to the change path; after the compare-and-set the stored value is
   that value, and an update request for it is published exactly when it
   differed from the stored value. *)
C7_DeltaPublishesIffChanged ==
    [][/\ (handler = "none" /\ handler' = "on_delta_event"
             /\ response'.entry \in PropValues)
          => pc'["cb"] = "csvLock" /\ value'["cb"] = response'.entry
       /\ (DeltaWithValue /\ CasStep("cb"))
          => /\ shadow_value' = response.entry
             /\ pc'["cb"] = "csvPublish" <=> shadow_value # response.entry
             /\ pc'["cb"] = "return" <=> shadow_value = response.entry
       /\ (DeltaWithValue /\ PublishStep("cb"))
          => updateRequests' = Append(updateRequests,
                                      UpdateShadowRequest(response.entry))]_vars

C7_Witness ==
    /\ DeltaWithValue
    /\ pc["cb"] = "return"
    /\ out["cb"] = "Local value is already"
    /\ shadow_value = response.entry

(* C8: on_delta_event with a deletion marker adopts the default: for every
   stored value, after the change path the stored value is 'off' and a
   publish of the default is attempted. *)
C8_DeletionAlwaysPublishesDefault ==
    [][(DeltaWithDeletion /\ CasStep("cb"))
         => shadow_value' = SHADOW_VALUE_DEFAULT /\ pc'["cb"] = "csvPublish"]_vars

(* C8 as amended: on_delta_event with a deletion marker hands the default to
   the change path; after the compare-and-set the stored value is 'off', and
   a publish of the default is attempted exactly when the stored value was
   not already the default. *)
C8_DeletionAdoptsDefault ==
    [][/\ (handler = "none" /\ handler' = "on_delta_event" /\ response'.entry = None)
          => pc'["cb"] = "csvLock" /\ value'["cb"] = SHADOW_VALUE_DEFAULT
       /\ (DeltaWithDeletion /\ CasStep("cb"))
          => /\ shadow_value' = SHADOW_VALUE_DEFAULT
             /\ pc'["cb"] = "csvPublish" <=> shadow_value # SHADOW_VALUE_DEFAULT
             /\ pc'["cb"] = "return" <=> shadow_value = SHADOW_VALUE_DEFAULT
       /\ (DeltaWithDeletion /\ PublishStep("cb"))
          => updateRequests' = Append(updateRequests,
                                      UpdateShadowRequest(SHADOW_VALUE_DEFAULT))]_vars

C8_Witness ==
    /\ DeltaWithDeletion
    /\ pc["cb"] = "return"
    /\ out["cb"] = "Updating reported shadow value"
    /\ shadow_value = SHADOW_VALUE_DEFAULT
    /\ Len(updateRequests) > 0
    /\ updateRequests[Len(updateRequests)] = UpdateShadowRequest(SHADOW_VALUE_DEFAULT)

\* the event-loop thread runs on_get_rejected for a 404
Rejected404 == InHandler("on_get_rejected") /\ response.code = 404

(* C9: on_get_rejected with code 404 is handled as branch (3) of
   on_get_accepted is: the default goes through the change path, which
   adopts it and publishes an update request carrying it, and the handler
   does not invoke shutdown. *)
C9_NotFoundCreatesDefault ==
    [][/\ (handler = "none" /\ handler' = "on_get_rejected" /\ response'.code = 404)
          => /\ pc'["cb"] = "csvLock"
             /\ value'["cb"] = SHADOW_VALUE_DEFAULT
             /\ UNCHANGED shutdownVars
             /\ UNCHANGED publishVars
       /\ (Step("cb", "gaCheck") /\ out'["cb"] = "Shadow document lacks property")
          => /\ pc'["cb"] = "csvLock"
             /\ value'["cb"] = SHADOW_VALUE_DEFAULT
       /\ (Rejected404 /\ CasStep("cb") /\ shadow_value # SHADOW_VALUE_DEFAULT)
          => /\ shadow_value' = SHADOW_VALUE_DEFAULT
             /\ pc'["cb"] = "csvPublish"
             /\ UNCHANGED shutdownVars
       /\ (Rejected404 /\ PublishStep("cb"))
          => /\ updateRequests' = Append(updateRequests,
                                         UpdateShadowRequest(SHADOW_VALUE_DEFAULT))
             /\ (disconnectCalls' # disconnectCalls
                   => out'["cb"] = "Error issuing shadow update")]_vars

C9_Witness ==
    /\ Rejected404
    /\ pc["cb"] = "return"
    /\ out["cb"] = "Updating reported shadow value"
    /\ shadow_value = SHADOW_VALUE_DEFAULT
    /\ updateRequests = <<UpdateShadowRequest(SHADOW_VALUE_DEFAULT)>>
    /\ ~disconnect_called

(* C10: on_get_rejected with a code other than 404 invokes shutdown, leaves
   shadow_value unchanged, and no shadow traffic (update or get publish) is
   issued after it. *)
C10_FatalRejectionEndsTraffic ==
    [][/\ (getAnswer = "none" /\ getAnswer' = "error")
          => /\ disconnect_called'
             /\ disconnectCalls' = disconnectCalls + 1
             /\ shadow_value' = shadow_value
       /\ getAnswer = "error"
          => /\ updateRequests' = updateRequests
             /\ publish_get_future' = publish_get_future]_vars

\* every subscribe future of the topics is done and succeeded
Completed(tps) == \A tp \in tps : subFuture[tp] = "ok"
\* a subscribe request for one of the topics has been issued
Issued(tps) == \E tp \in tps : subFuture[tp] # "none"

(* C11: startup is strictly ordered: the update subscriptions are issued
   only after the delta subscription succeeded, the get subscriptions only
   after both update subscriptions succeeded, the get request is published
   only after all five succeeded, and the input thread is started only after
   the get publish succeeded; so after a failed future no later startup step
   is performed. *)
C11_StartupOrder ==
    /\ Issued({"update_accepted", "update_rejected"}) => Completed({"delta"})
    /\ Issued({"get_accepted", "get_rejected"})
         => Completed({"delta", "update_accepted", "update_rejected"})
    /\ publish_get_future # "none" => Completed(Topics)
    /\ pc["input"] # "notStarted" => publish_get_future = "ok"
    /\ \A tp \in Topics :
         subFuture[tp] = "failed"
           => /\ publish_get_future = "none"
              /\ pc["input"] = "notStarted"
              /\ tp = "delta" => ~Issued(Topics \ {"delta"})
              /\ tp \in {"update_accepted", "update_rejected"}
                   => ~Issued({"get_accepted", "get_rejected"})

C11_Witness ==
    /\ Completed(Topics)
    /\ publish_get_future = "ok"
    /\ pc["input"] = "read"
    /\ pc["main"] = "wait"

(* C12: in every execution, delta events delivered during startup included,
   no update request is published before both the update/accepted and the
   update/rejected subscriptions have completed. *)
C12_NoUpdateBeforeSubscribed ==
    updateRequests # <<>> => Completed({"update_accepted", "update_rejected"})

\* exit() is called in this transition
ExitCalled == disconnect_called' /\ disconnectCalls' = disconnectCalls + 1
\* the event-loop thread enters the named callback in this transition
Invoked(name) == handler = "none" /\ handler' = name

(* C13: every fatal error category reaches exit(), which marks
   disconnect_called and requests disconnection: a non-zero connect return
   code, a failed subscribe future, a failed get publish future, a failed
   update publish future, an update rejection, and a get rejection with a
   code other than 404. *)
C13_FatalErrorsReachExit ==
    [][/\ (Step("main", "waitConnected") /\ connected_future = "failed") => ExitCalled
       /\ (\E label \in WaitLabels :
              Step("main", label) /\ subFuture[WaitTopic(label)] = "failed") => ExitCalled
       /\ (Step("main", "waitPublishGet") /\ publish_get_future = "failed") => ExitCalled
       /\ (Invoked("on_publish_update") /\ pendingResponses' = pendingResponses
             /\ Completed({"update_accepted", "update_rejected"})) => ExitCalled
       /\ Invoked("on_update_rejected") => ExitCalled
       /\ (Invoked("on_get_rejected") /\ response'.code # 404) => ExitCalled]_vars

\* on_disconnected runs in this transition
DisconnectNotified ==
    connection \in {"disconnecting", "interrupted"} /\ connection' # connection

(* C14: is_sample_done is one-shot: it is set only by a disconnect
   notification that arrives after shutdown was requested (disconnect_called
   true) and is never reset; on_disconnected declines reconnection exactly
   when disconnect_called is true, and otherwise accepts it and leaves the
   done condition untouched. *)
C14_DoneIsOneShot ==
    [][/\ is_sample_done => is_sample_done'
       /\ (~is_sample_done /\ is_sample_done') => (DisconnectNotified /\ disconnect_called)
       /\ DisconnectNotified =>
            IF disconnect_called
            THEN connection' = "disconnected" /\ is_sample_done'
            ELSE connection' = "connected" /\ is_sample_done' = is_sample_done]_vars

C14_Witness ==
    /\ is_sample_done
    /\ disconnect_called
    /\ connection = "disconnected"
    /\ pc["main"] = "wait"

(* C15: once shutdown was requested and the main thread is in its final
   wait, and the transport delivers the disconnect notification, the done
   condition is eventually set and the main thread's wait returns. *)
C15_ShutdownCompletes ==
    (disconnect_called /\ pc["main"] = "wait") ~> (is_sample_done /\ pc["main"] = "finished")

C15_Witness ==
    /\ disconnect_called
    /\ is_sample_done
    /\ pc["main"] = "finished"
    /\ pc["input"] = "stopped"

(* C16: once shadow_value is not None, no get-accepted, get-rejected, delta
   (deletion markers included) or user-input event returns it to None. *)
C16_NeverUnset ==
    [][shadow_value # None => shadow_value' # None]_vars

C16_Witness ==
    /\ DeltaWithDeletion
    /\ pc["cb"] = "return"
    /\ out["cb"] = "Local value is already"
    /\ shadow_value = SHADOW_VALUE_DEFAULT
    /\ events = MaxEvents

(* C17: for every update request published with value v, the store
   mutation to v has happened before the publish (in the same call), and the
   publishing thread does not hold the value lock when it calls
   publish_update: the lock is released by the compare-and-set. *)
C17_StoreThenPublishUnlocked ==
    [][/\ \A t \in Workers :
            (CasStep(t) /\ pc'[t] = "csvPublish")
              => /\ shadow_value_lock = t
                 /\ shadow_value_lock' # t
                 /\ shadow_value' = value[t]
                 /\ value'[t] = value[t]
                 /\ updateRequests' = updateRequests
       /\ updateRequests' # updateRequests
            => \E t \in Workers :
                  /\ PublishStep(t)
                  /\ out[t] = "Changed local shadow value"
                  /\ shadow_value_lock # t
                  /\ updateRequests' = Append(updateRequests, UpdateShadowRequest(value[t]))]_vars

C17_Witness ==
    \E t \in Workers :
        /\ pc[t] = "return"
        /\ out[t] = "Updating reported shadow value"
        /\ updateRequests # <<>>
        /\ updateRequests[Len(updateRequests)] = UpdateShadowRequest(value[t])
        /\ shadow_value_lock \in Workers \ {t}

\* the lines printed for an exception met while a callback runs
ExceptionLines ==
    {"Error getting shadow", "Error processing shadow delta", "Error issuing shadow update",
     "Failed to publish update request", "Unhandled exception"}
\* an exception is raised inside the running callback in this transition
RaisedInCallback == out'["cb"] # out["cb"] /\ out'["cb"] \in ExceptionLines

(* C18: an unexpected exception raised while handling any callback
   (get-accepted, get-rejected, delta, update-accepted, update-rejected,
   publish completion) results in exit() being called. *)
C18_CallbackExceptionsReachExit ==
    [][RaisedInCallback => ExitCalled]_vars

(* C19: when shadow_value was already set (by a delta event) at the moment
   on_get_rejected is invoked with code 404, the stored value is left
   unchanged and no update request is published.  With the input thread not
   yet started, a value set when the handler's compare-and-set runs was set
   before the handler was invoked. *)
C19_NotFoundKeepsSetValue ==
    [][(Rejected404 /\ CasStep("cb") /\ shadow_value # None /\ pc["input"] = "notStarted")
         => /\ shadow_value' = shadow_value
            /\ pc'["cb"] = "return"
            /\ UNCHANGED publishVars]_vars

\* no call that reads or writes the store is in progress on any thread
NoCallInProgress ==
    \A t \in Workers :
        pc[t] \notin {"gaCheck", "slqLock", "slqSet", "csvLock", "csvCas", "csvPublish"}

(* C20: under concurrent calls of change_shadow_value from the callback
   thread and the input thread, update requests are published in the order
   of the store mutations that caused them: whenever no call is in progress,
   the most recently published update request carries the stored value.
   Runs in which the initial query adopted a reported value are left out, so
   that only calls of change_shadow_value have written the store. *)
C20_LastPublishedIsStored ==
    (NoCallInProgress /\ updateRequests # <<>> /\ getAnswer # "accepted")
       => updateRequests[Len(updateRequests)].reported = shadow_value

=============================================================================
